---- MODULE Spec2Model ----
(***************************************************************************)
(* AutomationZ Log Cleanup Scheduler (src/app/main.py).                    *)
(*                                                                         *)
(* Three specifications share this module:                                 *)
(*   Spec       the Tk application: the job list, the scheduler switch,    *)
(*              the periodic _tick callback with _run_due_jobs, run_job    *)
(*              with its FTP session, run_selected_job, job_save,          *)
(*              ftp_delete, toggle_scheduler and the wall clock;           *)
(*   SpecClean  local_cleanup_folder and ftp_cleanup_folder applied to     *)
(*              bounded directory trees, with the FTP server's listing     *)
(*              behaviour (MLSD, NLST fallback) and per-call failures;     *)
(*   SpecLoop   the Tk thread step by step: _tick and run_selected_job     *)
(*              taken apart at their run_job calls and at the dialog.      *)
(* In Spec every Tk callback is one atomic action; SpecLoop is where that  *)
(* is examined.                                                            *)
(***************************************************************************)
EXTENDS Integers, Sequences, FiniteSets, TLC

VARIABLES
    jobs,        \* App.jobs: the list of Job records
    ftp_targets, \* App.ftp_targets: the names of the FTPTarget records, in list order
    persisted,   \* the content of CONFIG_PATH as last written by save_state
    _running,    \* App._running
    armed,       \* a self.after(..., self._tick) callback is pending
    now,         \* the wall clock read by datetime.datetime.now()
    firedInMinute, \* history: per job index, automatic run_job calls during the minute `now`
    edits,       \* history: the number of job_save calls that replaced a job
    last,        \* history: what the most recent handler did
    fs,          \* the directory tree below the cleanup root (a set of paths)
    res,         \* history: the most recent cleanup call, its inputs and its results
    stack,       \* the handlers the Tk thread is in, outermost first, each with its position
    inflight     \* history: the run_job calls that have begun and not ended

schedVars == <<jobs, ftp_targets, persisted, _running, armed, now,
               firedInMinute, edits, last, stack, inflight>>
cleanVars == <<fs, res, stack, inflight>>
vars == <<jobs, ftp_targets, persisted, _running, armed, now,
          firedInMinute, edits, last, fs, res, stack, inflight>>

(***************************************************************************)
(* Bounds of the model.                                                    *)
(***************************************************************************)
\* The clock is observed on the days 0..MaxDay after the start (day 0 is a Monday).
MaxDay == 1
\* At most MaxEdits job_save calls are explored in one behaviour.
MaxEdits == 1
\* A directory tree holds at most MaxNodes files and directories below its root.
MaxNodes == 3

\* The times of day <<hour, minute>> to which a job can be set: 03:00 is job_new's
\* default; 03:30 differs from it in the minute only and 17:00 in the hour only.
SampleTimes == {<<3, 0>>, <<3, 30>>, <<17, 0>>}
\* The times of day at which the clock is observed.
ClockTimes == {<<3, 0>>, <<17, 0>>}

AllDays == 0..6

(***************************************************************************)
(* Helpers of main.py.                                                     *)
(***************************************************************************)
\* str.strip(): leading and trailing blanks removed.  A file name or a pattern is a
\* sequence of one-character strings.
RECURSIVE LStrip(_)
LStrip(s) ==
    IF s # <<>> /\ Head(s) = " " THEN LStrip(Tail(s)) ELSE s

RECURSIVE RStrip(_)
RStrip(s) ==
    IF s # <<>> /\ s[Len(s)] = " " THEN RStrip(SubSeq(s, 1, Len(s) - 1)) ELSE s

Strip(s) == RStrip(LStrip(s))

\* The position of the "]" that closes the bracket expression opened at p[1] = "[",
\* or 0 when there is none (a "]" directly after "[" or "[!" is a member, not the end).
BracketEnd(p) ==
    LET first == IF Len(p) >= 2 /\ p[2] = "!" THEN 4 ELSE 3
        ends == {k \in first..Len(p) : p[k] = "]"}
    IN  IF ends = {} THEN 0 ELSE CHOOSE k \in ends : \A m \in ends : k <= m

\* fnmatch.fnmatch(name, pat) on a case-sensitive platform: "*" any run of characters,
\* "?" any one character, "[abc]" / "[!abc]" a character set, anything else itself;
\* the whole name must match.
RECURSIVE fnmatch(_, _)
fnmatch(name, pat) ==
    IF pat = <<>> THEN name = <<>>
    ELSE IF Head(pat) = "*" THEN
        \/ fnmatch(name, Tail(pat))
        \/ name # <<>> /\ fnmatch(Tail(name), pat)
    ELSE IF Head(pat) = "?" THEN
        name # <<>> /\ fnmatch(Tail(name), Tail(pat))
    ELSE IF Head(pat) = "[" /\ BracketEnd(pat) # 0 THEN
        LET e == BracketEnd(pat)
            neg == pat[2] = "!"
            members == {pat[k] : k \in (IF neg THEN 3 ELSE 2)..(e - 1)}
        IN  /\ name # <<>>
            /\ (Head(name) \in members) # neg
            /\ fnmatch(Tail(name), SubSeq(pat, e + 1, Len(pat)))
    ELSE
        name # <<>> /\ Head(name) = Head(pat) /\ fnmatch(Tail(name), Tail(pat))

\* matches_any(name, patterns): blank patterns are skipped.
matches_any(name, patterns) ==
    \E k \in 1..Len(patterns) :
        /\ Strip(patterns[k]) # <<>>
        /\ fnmatch(name, Strip(patterns[k]))

(***************************************************************************)
(* The clock and the minute-stamp.                                         *)
(***************************************************************************)
Instants ==
    {[day |-> d, hour |-> hm[1], minute |-> hm[2]] : d \in 0..MaxDay, hm \in ClockTimes}

\* t is strictly later than u.
Later(t, u) ==
    \/ t.day > u.day
    \/ t.day = u.day /\ t.hour > u.hour
    \/ t.day = u.day /\ t.hour = u.hour /\ t.minute > u.minute

\* now.weekday(): Monday is 0.
Weekday(t) == t.day % 7

\* now.strftime("%Y%m%d_%H%M"): the date, the hour and the minute, nothing finer.
MinuteStamp(t) == <<t.day, t.hour, t.minute>>

\* last_run_key = "": the job never fired.
NoKey == <<>>

(***************************************************************************)
(* Job records and the configurations the application starts from.         *)
(***************************************************************************)
\* The local_folders and the ftp_folders of the jobs the model starts from.  A folder
\* is named by what its path is when the job runs: nothing, a file, or a directory
\* (an empty one).
ConfigFolders == <<"missing", "file", "dir">>

\* A Job as load_state builds it from one entry of the "jobs" list of the config file.
\* Of the entry, the model varies the days list, the mode and the ftp_target; a days
\* list is kept as the set of its members (the code only tests membership).  The
\* fields exclude_files and exclude_folders are read by the cleanup functions alone,
\* whose inputs SpecClean draws directly.
LoadedJob(n, d, m, t) ==
    [name |-> n, enabled |-> TRUE, mode |-> m, ftp_target |-> t,
     local_folders |-> ConfigFolders, ftp_folders |-> ConfigFolders,
     schedule_enabled |-> TRUE, days |-> d, hour |-> 3, minute |-> 0,
     last_run_key |-> NoKey, dry_run |-> TRUE]

\* The {mode, ftp_target} pairs of the config files the model starts from: a local
\* job, an ftp job with its target, an ftp job whose target is not in ftp_targets,
\* and a mode that is neither "local" nor "ftp".
ConfigRunKinds == {<<"local", "T1">>, <<"ftp", "T1">>, <<"ftp", "gone">>, <<"sftp", "T1">>}

\* The job lists of the config files the model starts from: a first job of any kind
\* with a full days list, or a local one with an empty days list, followed by a
\* local job.
ConfigJobLists ==
    LET firsts == {LoadedJob("JobA", AllDays, k[1], k[2]) : k \in ConfigRunKinds}
                  \cup {LoadedJob("JobA", {}, "local", "T1")}
        second == LoadedJob("JobB", AllDays, "local", "T1")
    IN  {<<j, second>> : j \in firsts}

\* `res` when no cleanup call has run on the tree as it is.
NoRun == [op |-> "none"]

EmptyTree(kind) == [root |-> kind, dirs |-> {}, files |-> {}]

(***************************************************************************)
(* Directory trees.  A path is the sequence of names from the cleanup root *)
(* (the root itself is <<>>); a tree is the kind of its root, the set of   *)
(* its directories and the set of its files.                               *)
(***************************************************************************)
\* " *.json": parse_csv strips the entries of the form, a config file may hold blanks.
PatJsonBlank == <<" ", "*", ".", "j", "s", "o", "n">>
NameConfig == <<"c", "o", "n", "f", "i", "g">>
NameSub == <<"s", "u", "b">>
NameAJson == <<"a", ".", "j", "s", "o", "n">>
NameBLog == <<"b", ".", "l", "o", "g">>

\* The names the model gives to files and to directories.
FileNames == {NameAJson, NameBLog}
DirNames == {NameSub, NameConfig}

\* The exclusion settings of a cleanup call.
ExcludeFileChoices == {<<>>, <<PatJsonBlank>>}
ExcludeFolderChoices == {<<>>, <<NameConfig>>}

Nodes(t) == t.dirs \cup t.files

\* The directories of a tree, its root included when that is a directory.
DirsOf(t) == t.dirs \cup (IF t.root = "dir" THEN {<<>>} ELSE {})

Parent(p) == SubSeq(p, 1, Len(p) - 1)
Basename(p) == p[Len(p)]

Children(t, d) == {p \in Nodes(t) : Parent(p) = d}

\* The members of a finite set in the order in which a listing returns them.
RECURSIVE Listed(_)
Listed(S) ==
    IF S = {} THEN <<>>
    ELSE LET x == CHOOSE y \in S : TRUE IN <<x>> \o Listed(S \ {x})

(***************************************************************************)
(* The failures the environment injects into one cleanup call.             *)
(*   noList    directories that cannot be entered or read (scandir and     *)
(*             iterdir raise; FTP CWD is refused)                          *)
(*   noNlst    directories for which FTP NLST is refused                   *)
(*   noDelete  files whose unlink / DELE fails                             *)
(*   noRmdir   directories whose rmdir / RMD fails                         *)
(*   mlsd      "ok", or "raises": the server has no MLSD or the transfer   *)
(*             breaks.  ftplib's mlsd() reads the whole reply before it    *)
(*             yields its first entry, so a raising MLSD yields none.      *)
(***************************************************************************)
NoFaults(m) == [noList |-> {}, noNlst |-> {}, noDelete |-> {}, noRmdir |-> {}, mlsd |-> m]

\* No failure, or one failing path.
FaultChoices(t, m) ==
    {NoFaults(m)}
    \cup {[NoFaults(m) EXCEPT !.noList = {d}] : d \in DirsOf(t)}
    \cup {[NoFaults(m) EXCEPT !.noNlst = {d}] : d \in IF m = "ok" THEN {} ELSE DirsOf(t)}
    \cup {[NoFaults(m) EXCEPT !.noDelete = {f}] : f \in t.files}
    \cup {[NoFaults(m) EXCEPT !.noRmdir = {d}] : d \in t.dirs}

\* The state a cleanup call threads through its loops: the tree, the two counters,
\* the mutating and listing calls issued so far, and the warnings logged.
StartOf(t) == [fs |-> t, nf |-> 0, nd |-> 0, calls |-> <<>>, warns |-> 0]

Call(op, t, p) == [op |-> op, path |-> p, children |-> Cardinality(Children(t, p))]

(***************************************************************************)
(* local_cleanup_folder.                                                   *)
(***************************************************************************)
\* A failed unlink is counted like a successful one.
LocalFileStepCountingFailures(st, cfg, env, fp) ==
    IF matches_any(Basename(fp), cfg.exclude_files) THEN st
    ELSE IF cfg.dry_run THEN [st EXCEPT !.nf = @ + 1]
    ELSE IF fp \in env.noDelete THEN [st EXCEPT !.warns = @ + 1, !.nf = @ + 1]
    ELSE [st EXCEPT !.fs.files = @ \ {fp}, !.nf = @ + 1,
                    !.calls = Append(@, Call("unlink", st.fs, fp))]

\* The file is counted and left in place.
LocalFileStepCountOnly(st, cfg, env, fp) ==
    IF matches_any(Basename(fp), cfg.exclude_files) THEN st
    ELSE [st EXCEPT !.nf = @ + 1]

\* The file is unlinked whatever dry_run says.
LocalFileStepIgnoringDryRun(st, cfg, env, fp) ==
    IF matches_any(Basename(fp), cfg.exclude_files) THEN st
    ELSE IF fp \in env.noDelete THEN [st EXCEPT !.warns = @ + 1]
    ELSE [st EXCEPT !.fs.files = @ \ {fp}, !.nf = @ + 1,
                    !.calls = Append(@, Call("unlink", st.fs, fp))]

\* The file is unlinked whatever exclude_files says.
LocalFileStepIgnoringExcludes(st, cfg, env, fp) ==
    IF cfg.dry_run THEN [st EXCEPT !.nf = @ + 1]
    ELSE IF fp \in env.noDelete THEN [st EXCEPT !.warns = @ + 1]
    ELSE [st EXCEPT !.fs.files = @ \ {fp}, !.nf = @ + 1,
                    !.calls = Append(@, Call("unlink", st.fs, fp))]

\* One round of `for fn in files`: skip an excluded name; count in a dry run; else
\* unlink(missing_ok=True) and count, or warn when the unlink raises.
LocalFileStep(st, cfg, env, fp) ==
    IF matches_any(Basename(fp), cfg.exclude_files) THEN st
    ELSE IF cfg.dry_run THEN [st EXCEPT !.nf = @ + 1]
    ELSE IF fp \in env.noDelete THEN [st EXCEPT !.warns = @ + 1]
    ELSE [st EXCEPT !.fs.files = @ \ {fp}, !.nf = @ + 1,
                    !.calls = Append(@, Call("unlink", st.fs, fp))]

\* No directory is ever removed.
LocalDirStepNever(st, cfg, env, dp) == st

\* The directory is removed when empty whatever exclude_folders says.
LocalDirStepIgnoringExcludes(st, cfg, env, dp) ==
    IF dp \notin st.fs.dirs THEN st
    ELSE IF dp \in env.noList THEN st
    ELSE IF Children(st.fs, dp) # {} THEN st
    ELSE IF cfg.dry_run THEN [st EXCEPT !.nd = @ + 1]
    ELSE IF dp \in env.noRmdir THEN
        [st EXCEPT !.calls = Append(@, Call("rmdir", st.fs, dp))]
    ELSE [st EXCEPT !.fs.dirs = @ \ {dp}, !.nd = @ + 1,
                    !.calls = Append(@, Call("rmdir", st.fs, dp))]

\* One round of `for dn in dirs`: skip an excluded name; when dp exists, is a
\* directory and iterdir() yields nothing, count it (dry run) or rmdir it and count
\* it; any exception (iterdir or rmdir raising) is swallowed.
LocalDirStep(st, cfg, env, dp) ==
    IF matches_any(Basename(dp), cfg.exclude_folders) THEN st
    ELSE IF dp \notin st.fs.dirs THEN st
    ELSE IF dp \in env.noList THEN st
    ELSE IF Children(st.fs, dp) # {} THEN st
    ELSE IF cfg.dry_run THEN [st EXCEPT !.nd = @ + 1]
    ELSE IF dp \in env.noRmdir THEN
        [st EXCEPT !.calls = Append(@, Call("rmdir", st.fs, dp))]
    ELSE [st EXCEPT !.fs.dirs = @ \ {dp}, !.nd = @ + 1,
                    !.calls = Append(@, Call("rmdir", st.fs, dp))]

RECURSIVE LocalFiles(_, _, _, _)
LocalFiles(st, cfg, env, files) ==
    IF files = <<>> THEN st
    ELSE LocalFiles(LocalFileStep(st, cfg, env, Head(files)), cfg, env, Tail(files))

RECURSIVE LocalDirs(_, _, _, _)
LocalDirs(st, cfg, env, dirs) ==
    IF dirs = <<>> THEN st
    ELSE LocalDirs(LocalDirStep(st, cfg, env, Head(dirs)), cfg, env, Tail(dirs))

\* os.walk(folder, topdown=False) from directory d, with the loop body applied to
\* each (root, dirs, files) it yields: d is scanned first, then every subdirectory is
\* walked, then d itself is yielded with the names scanned at the start.  A directory
\* whose scan fails yields nothing (os.walk ignores the error).
RECURSIVE LocalWalk(_, _, _, _)
RECURSIVE LocalWalkAll(_, _, _, _)
\* The walk leaves out the directories with an excluded name, as walk_dir does.
LocalWalkSkippingExcluded(st, cfg, env, d) ==
    IF d \in env.noList THEN st
    ELSE IF d # <<>> /\ matches_any(Basename(d), cfg.exclude_folders) THEN st
    ELSE
        LET dirs == Listed(Children(st.fs, d) \cap st.fs.dirs)
            files == Listed(Children(st.fs, d) \cap st.fs.files)
            below == LocalWalkAll(st, cfg, env, dirs)
        IN  LocalDirs(LocalFiles(below, cfg, env, files), cfg, env, dirs)

LocalWalk(st, cfg, env, d) ==
    IF d \in env.noList THEN st
    ELSE
        LET dirs == Listed(Children(st.fs, d) \cap st.fs.dirs)
            files == Listed(Children(st.fs, d) \cap st.fs.files)
            below == LocalWalkAll(st, cfg, env, dirs)
        IN  LocalDirs(LocalFiles(below, cfg, env, files), cfg, env, dirs)

LocalWalkAll(st, cfg, env, dirs) ==
    IF dirs = <<>> THEN st
    ELSE LocalWalkAll(LocalWalk(st, cfg, env, Head(dirs)), cfg, env, Tail(dirs))

\* The walk is started whatever the root is.
local_cleanup_folder_NoRootCheck(t, cfg, env) == LocalWalk(StartOf(t), cfg, env, <<>>)

local_cleanup_folder(t, cfg, env) ==
    IF t.root # "dir" THEN
        \* "Local folder missing" / "Not a directory": return (0,0)
        [StartOf(t) EXCEPT !.warns = 1]
    ELSE LocalWalk(StartOf(t), cfg, env, <<>>)

(***************************************************************************)
(* FTPClient.list_dir against the server.                                  *)
(***************************************************************************)
\* ftp.cwd(d) succeeds.
CwdOk(t, env, d) == d \in DirsOf(t) /\ d \notin env.noList

\* The (name, is_dir) pairs that the MLSD loop appends to items for directory d
\* before it ends or raises.
MlsdItems(t, env, d) ==
    LET all == Listed(Children(t, d))
        items == [k \in 1..Len(all) |-> <<Basename(all[k]), all[k] \in t.dirs>>]
    IN  IF env.mlsd = "ok" THEN items ELSE <<>>

\* The fallback: NLST (names = [] when it raises), then for each name a CWD probe,
\* which makes is_dir true iff the server lets the client enter it.
NlstItems(t, env, d) ==
    LET all == IF d \in env.noNlst THEN <<>> ELSE Listed(Children(t, d))
    IN  [k \in 1..Len(all) |-> <<Basename(all[k]), CwdOk(t, env, all[k])>>]

\* list_dir(remote_dir): raised, or the items returned.  The fallback appends to the
\* list the MLSD loop appended to.
list_dir(t, env, d) ==
    IF ~CwdOk(t, env, d) THEN [raised |-> TRUE, items |-> <<>>]
    ELSE IF env.mlsd = "ok" THEN [raised |-> FALSE, items |-> MlsdItems(t, env, d)]
    ELSE [raised |-> FALSE, items |-> MlsdItems(t, env, d) \o NlstItems(t, env, d)]

(***************************************************************************)
(* ftp_cleanup_folder.                                                     *)
(***************************************************************************)
\* norm_remote(path): every backslash becomes a slash.
norm_remote(path) ==
    [k \in 1..Len(path) |-> IF path[k] = "\\" THEN "/" ELSE path[k]]

\* s.rstrip("/")
RECURSIVE RStripSlash(_)
RStripSlash(s) ==
    IF s # <<>> /\ s[Len(s)] = "/" THEN RStripSlash(SubSeq(s, 1, Len(s) - 1)) ELSE s

\* remote_folder is used as the job spells it.
RemoteRootAsSpelled(spelling) == spelling

\* remote_folder as ftp_cleanup_folder rebinds it before the walk: backslashes turned,
\* trailing slashes dropped, a leading slash supplied.
RemoteRoot(spelling) ==
    LET n == RStripSlash(norm_remote(spelling))
    IN  IF n = <<>> \/ Head(n) # "/" THEN <<"/">> \o n ELSE n

\* The string walk_dir holds as rdir for the directory at tree path p: the root
\* string, extended by rdir.rstrip("/") + "/" + name at every level of the descent.
RECURSIVE RemotePath(_, _)
RemotePath(root, p) ==
    IF p = <<>> THEN root
    ELSE RStripSlash(RemotePath(root, Parent(p))) \o <<"/">> \o Basename(p)

\* The spellings of the configured remote folder the model draws: as the server
\* names it, with a trailing slash, with a backslash, without the leading slash,
\* and the server's root.
RootSpellings ==
    {<<"/", "r">>, <<"/", "r", "/">>, <<"\\", "r">>, <<"r">>, <<"/">>}

\* Every directory walk_dir finishes is a candidate for removal.
NotJobRootAlways(rdir, remote_folder) == TRUE

\* if rdir != remote_folder
NotJobRoot(rdir, remote_folder) == rdir # remote_folder

\* The file is deleted whatever exclude_files says.
FtpFileStepIgnoringExcludes(st, cfg, env, p) ==
    IF cfg.dry_run THEN [st EXCEPT !.nf = @ + 1]
    ELSE IF p \notin st.fs.files \/ p \in env.noDelete THEN
        [st EXCEPT !.warns = @ + 1, !.calls = Append(@, Call("dele", st.fs, p))]
    ELSE [st EXCEPT !.fs.files = @ \ {p}, !.nf = @ + 1,
                    !.calls = Append(@, Call("dele", st.fs, p))]

\* One round of the "then delete files" loop for an item that is not a directory:
\* skip an excluded name; count in a dry run; else DELE and count, or warn when the
\* server refuses (no such file, or the path is not a file).
FtpFileStep(st, cfg, env, p) ==
    IF matches_any(Basename(p), cfg.exclude_files) THEN st
    ELSE IF cfg.dry_run THEN [st EXCEPT !.nf = @ + 1]
    ELSE IF p \notin st.fs.files \/ p \in env.noDelete THEN
        [st EXCEPT !.warns = @ + 1, !.calls = Append(@, Call("dele", st.fs, p))]
    ELSE [st EXCEPT !.fs.files = @ \ {p}, !.nf = @ + 1,
                    !.calls = Append(@, Call("dele", st.fs, p))]

\* "finally remove dir if empty": list again; when the list is empty, count it (dry
\* run) or RMD it and count it; an exception from list_dir or RMD is swallowed.  The
\* server refuses RMD for a directory that has children, and for its own root "/".
FtpRemoveStep(st, cfg, env, rdir) ==
    LET again == list_dir(st.fs, env, rdir)
        listed == [st EXCEPT !.calls = Append(@, Call("list", st.fs, rdir))]
        refused == \/ rdir \notin DirsOf(st.fs) \/ rdir \in env.noRmdir
                   \/ Children(st.fs, rdir) # {}
                   \/ RemotePath(RemoteRoot(cfg.remote_folder), rdir) = <<"/">>
    IN  IF again.raised \/ again.items # <<>> THEN listed
        ELSE IF cfg.dry_run THEN [listed EXCEPT !.nd = @ + 1]
        ELSE IF refused THEN
            [listed EXCEPT !.calls = Append(@, Call("rmd", st.fs, rdir))]
        ELSE IF rdir = <<>> THEN
            [listed EXCEPT !.fs.root = "missing", !.nd = @ + 1,
                           !.calls = Append(@, Call("rmd", st.fs, rdir))]
        ELSE [listed EXCEPT !.fs.dirs = @ \ {rdir}, !.nd = @ + 1,
                            !.calls = Append(@, Call("rmd", st.fs, rdir))]

RECURSIVE FtpFiles(_, _, _, _, _)
FtpFiles(st, cfg, env, rdir, items) ==
    IF items = <<>> THEN st
    ELSE IF Head(items)[2] THEN FtpFiles(st, cfg, env, rdir, Tail(items))
    ELSE FtpFiles(FtpFileStep(st, cfg, env, Append(rdir, Head(items)[1])),
                  cfg, env, rdir, Tail(items))

\* walk_dir(rdir): list (warn and return when that raises), recurse into the listed
\* directories that are not excluded, delete the listed files, then remove rdir when
\* it is not the root of the call.
RECURSIVE walk_dir(_, _, _, _)
RECURSIVE FtpSubdirs(_, _, _, _, _)
walk_dir(st, cfg, env, rdir) ==
    LET first == list_dir(st.fs, env, rdir)
        listed == [st EXCEPT !.calls = Append(@, Call("list", st.fs, rdir))]
    IN  IF first.raised THEN [listed EXCEPT !.warns = @ + 1]
        ELSE
            LET below == FtpSubdirs(listed, cfg, env, rdir, first.items)
                cleared == FtpFiles(below, cfg, env, rdir, first.items)
                root == RemoteRoot(cfg.remote_folder)
            IN  IF NotJobRoot(RemotePath(root, rdir), root)
                THEN FtpRemoveStep(cleared, cfg, env, rdir)
                ELSE cleared

FtpSubdirs(st, cfg, env, rdir, items) ==
    IF items = <<>> THEN st
    ELSE IF ~Head(items)[2] \/ matches_any(Head(items)[1], cfg.exclude_folders) THEN
        FtpSubdirs(st, cfg, env, rdir, Tail(items))
    ELSE FtpSubdirs(walk_dir(st, cfg, env, Append(rdir, Head(items)[1])),
                    cfg, env, rdir, Tail(items))

ftp_cleanup_folder(t, cfg, env) == walk_dir(StartOf(t), cfg, env, <<>>)

\* The cleanup function of a backend.
CleanupOf(backend, t, cfg, env) ==
    IF backend = "local" THEN local_cleanup_folder(t, cfg, env)
    ELSE ftp_cleanup_folder(t, cfg, env)

Mutating == {"unlink", "rmdir", "dele", "rmd"}

(***************************************************************************)
(* App.run_job: its result and the calls it makes on the way.  The trees   *)
(* the calls work on are the subject of SpecClean; here every folder is    *)
(* missing, a file, or an empty directory, and a cleanup call is taken by  *)
(* what it returns for such a folder.                                      *)
(***************************************************************************)
\* What the environment does to one run: nothing; ftp.connect raises (no connection
\* comes about); ftp.login raises on the connection ftp.connect opened; a cleanup call
\* raises outside its own try blocks (the logger fails to write).
FaultKinds == {"none", "connect", "login", "cleanup"}

\* The faults that can reach a run of the job: a local job opens no connection, and a
\* job that raises before its first call meets none.
FaultsFor(job, targets) ==
    IF job.mode = "local" THEN {"none", "cleanup"}
    ELSE IF job.mode = "ftp" /\ \E k \in 1..Len(targets) : targets[k] = job.ftp_target
         THEN FaultKinds
    ELSE {"none"}

\* A call of FTPClient.connect's ftp.connect or ftp.login, or of FTPClient.close.
SessionStep(op, raised) ==
    [op |-> op, folder |-> "", raised |-> raised, nf |-> 0, nd |-> 0, warns |-> 0]

\* What local_cleanup_folder and ftp_cleanup_folder return and log for a folder with
\* nothing in it: (0, 0) and one warning when it is missing or a file, (0, 0) and no
\* warning when it is an empty directory.
OnEmptyFolder(folder) ==
    [nf |-> 0, nd |-> 0, warns |-> IF folder = "dir" THEN 0 ELSE 1]

\* A cleanup call on one configured folder, with what it returns and logs.
CleanupStep(backend, job, folder) ==
    [op |-> backend, folder |-> folder, raised |-> FALSE,
     nf |-> OnEmptyFolder(folder).nf, nd |-> OnEmptyFolder(folder).nd,
     warns |-> OnEmptyFolder(folder).warns]

\* for p in job.local_folders / for rf in job.ftp_folders: one call per folder, in
\* order; a call that raises ends the loop.
RECURSIVE CleanupLoop(_, _, _, _)
CleanupLoop(backend, job, folders, fault) ==
    IF folders = <<>> THEN <<>>
    ELSE IF fault = "cleanup" THEN
        <<[op |-> backend, folder |-> Head(folders), raised |-> TRUE,
           nf |-> 0, nd |-> 0, warns |-> 0]>>
    ELSE <<CleanupStep(backend, job, Head(folders))>>
             \o CleanupLoop(backend, job, Tail(folders), fault)

Raised(calls) == \E k \in 1..Len(calls) : calls[k].raised

\* A run that got to its cleanup loop: it raises when a cleanup call raised.  before
\* and after are the session calls around the loop.
Finish(before, calls, after) ==
    [outcome |-> IF Raised(calls) THEN "error" ELSE "ok",
     calls |-> before \o calls \o after]

\* The mode == "local" branch.
RunLocal(job, fault) ==
    Finish(<<>>, CleanupLoop("local", job, job.local_folders, fault), <<>>)

\* The mode == "ftp" branch from FTPClient(t) on: connect() outside the try block,
\* the folders inside it, close() in its finally clause.
RunFtp(job, fault) ==
    IF fault = "connect" THEN
        [outcome |-> "connect_error", calls |-> <<SessionStep("connect", TRUE)>>]
    ELSE IF fault = "login" THEN
        [outcome |-> "connect_error",
         calls |-> <<SessionStep("connect", FALSE), SessionStep("login", TRUE)>>]
    ELSE
        Finish(<<SessionStep("connect", FALSE), SessionStep("login", FALSE)>>,
               CleanupLoop("ftp", job, job.ftp_folders, fault),
               <<SessionStep("close", FALSE)>>)

TargetFound(job, targets) ==
    \E k \in 1..Len(targets) : targets[k] = job.ftp_target

\* A mode that is not "ftp" is run as a local job.
run_job_UnknownModeAsLocal(job, targets, fault) ==
    IF job.mode = "ftp" THEN
        IF ~TargetFound(job, targets) THEN [outcome |-> "target_not_found", calls |-> <<>>]
        ELSE RunFtp(job, fault)
    ELSE RunLocal(job, fault)

\* The connection is opened before the target is looked up.
run_job_ConnectBeforeLookup(job, targets, fault) ==
    IF job.mode = "local" THEN RunLocal(job, fault)
    ELSE IF job.mode = "ftp" THEN
        IF ~TargetFound(job, targets) THEN
            [outcome |-> "target_not_found", calls |-> <<SessionStep("connect", FALSE)>>]
        ELSE RunFtp(job, fault)
    ELSE [outcome |-> "unknown_mode", calls |-> <<>>]

\* run_job(job): how it ends ("ok" when it returns, else what it raises) and the
\* calls it made.
run_job(job, targets, fault) ==
    IF job.mode = "local" THEN RunLocal(job, fault)
    ELSE IF job.mode = "ftp" THEN
        IF ~TargetFound(job, targets) THEN [outcome |-> "target_not_found", calls |-> <<>>]
        ELSE RunFtp(job, fault)
    ELSE [outcome |-> "unknown_mode", calls |-> <<>>]

(***************************************************************************)
(* App._run_due_jobs.                                                      *)
(***************************************************************************)
\* The due-check without the last_run_key comparison.
IsDueIgnoringKey(j, t) ==
    /\ j.enabled /\ j.schedule_enabled
    /\ Weekday(t) \in j.days
    /\ t.hour = j.hour /\ t.minute = j.minute

\* The due-check without the weekday test.
IsDueAnyWeekday(j, t) ==
    /\ j.enabled /\ j.schedule_enabled
    /\ t.hour = j.hour /\ t.minute = j.minute
    /\ j.last_run_key # MinuteStamp(t)

\* The four `continue` tests of the loop: the job is run iff none of them applies.
IsDue(j, t) ==
    /\ j.enabled /\ j.schedule_enabled
    /\ Weekday(t) \in j.days
    /\ t.hour = j.hour /\ t.minute = j.minute
    /\ j.last_run_key # MinuteStamp(t)

\* The key is written only when run_job returned.
KeyAfterRunOnSuccess(old, key, outcome) ==
    IF outcome = "ok" THEN key ELSE old

\* try: run_job(j) finally: j.last_run_key = key
KeyAfterRun(old, key, outcome) == key

\* One round of the loop for a due job i, whose run_job call ended as `run`.
AfterRun(acc, i, t, run) ==
    LET key == KeyAfterRun(acc.jobs[i].last_run_key, MinuteStamp(t), run.outcome)
    IN  [jobs |-> [acc.jobs EXCEPT ![i].last_run_key = key],
         fired |-> Append(acc.fired, [idx |-> i, outcome |-> run.outcome,
                                      calls |-> run.calls]),
         raised |-> run.outcome # "ok",
         changed |-> TRUE]

\* The loop from job i on.  acc.raised: a run_job call raised, which leaves the loop
\* and the function (the finally clause has run, the save_state call has not).
RECURSIVE RunDueFrom(_, _, _, _, _)
RunDueFrom(i, acc, targets, t, faults) ==
    IF i > Len(acc.jobs) \/ acc.raised THEN acc
    ELSE IF ~IsDue(acc.jobs[i], t) THEN RunDueFrom(i + 1, acc, targets, t, faults)
    ELSE
        RunDueFrom(i + 1, AfterRun(acc, i, t, run_job(acc.jobs[i], targets, faults[i])),
                   targets, t, faults)

\* _run_due_jobs(): the jobs after it, the runs it made, whether it raised, and
\* whether it reached save_state.
_run_due_jobs(js, targets, t, faults) ==
    LET r == RunDueFrom(1, [jobs |-> js, fired |-> <<>>, raised |-> FALSE, changed |-> FALSE],
                        targets, t, faults)
    IN  [jobs |-> r.jobs, fired |-> r.fired, raised |-> r.raised,
         saved |-> r.changed /\ ~r.raised]

(***************************************************************************)
(* App._tick.                                                              *)
(***************************************************************************)
\* The next tick is scheduled only when the tick body did not raise.
RearmUnlessError(raised) == ~raised

\* finally: self.after(max(5, int(self.tick_seconds)) * 1000, self._tick)
Rearm(raised) == TRUE

\* The due jobs are run whether the scheduler is switched on or not.
TickBodyIgnoringSwitch(js, targets, running, t, refreshFails, faults) ==
    IF refreshFails THEN
        [jobs |-> js, fired |-> <<>>, raised |-> TRUE, saved |-> FALSE, ran |-> FALSE]
    ELSE
        LET r == _run_due_jobs(js, targets, t,
                               [i \in 1..Len(js) |->
                                   IF i \in DOMAIN faults THEN faults[i] ELSE "none"])
        IN  [jobs |-> r.jobs, fired |-> r.fired, raised |-> r.raised, saved |-> r.saved,
             ran |-> TRUE]

\* The try block: refresh_dashboard(), then _run_due_jobs() when the scheduler runs.
TickBody(js, targets, running, t, refreshFails, faults) ==
    IF refreshFails THEN
        [jobs |-> js, fired |-> <<>>, raised |-> TRUE, saved |-> FALSE, ran |-> FALSE]
    ELSE IF ~running THEN
        [jobs |-> js, fired |-> <<>>, raised |-> FALSE, saved |-> FALSE, ran |-> FALSE]
    ELSE
        LET r == _run_due_jobs(js, targets, t, faults)
        IN  [jobs |-> r.jobs, fired |-> r.fired, raised |-> r.raised, saved |-> r.saved,
             ran |-> TRUE]

\* `last` after a handler that is not a tick.
NoTick ==
    [op |-> "other", key |-> NoKey, fired |-> <<>>, raised |-> FALSE, logged |-> FALSE,
     ran |-> FALSE]

\* The jobs whose run the environment can fail in a tick: those the tick runs.
DueJobs(js, running, t) ==
    IF running THEN {i \in 1..Len(js) : IsDue(js[i], t)} ELSE {}

\* The faults of one tick: the dashboard refresh fails, or each job the tick runs
\* meets one of its faults; after a run that raises no further job is run.
TickFaults(js, targets, running, t) ==
    LET due == DueJobs(js, running, t)
    IN  {[refreshFails |-> TRUE, faults |-> [i \in due |-> "none"]]}
        \cup {[refreshFails |-> FALSE, faults |-> f] :
                  f \in {g \in [due -> FaultKinds] :
                            /\ \A i \in due : g[i] \in FaultsFor(js[i], targets)
                            /\ \A i, k \in due :
                                   (i < k /\ run_job(js[i], targets, g[i]).outcome # "ok")
                                   => g[k] = "none"}}

Tick ==
    /\ armed
    /\ \E e \in TickFaults(jobs, ftp_targets, _running, now) :
        LET refreshFails == e.refreshFails
            faults == e.faults
            r == TickBody(jobs, ftp_targets, _running, now, refreshFails, faults)
        IN  /\ jobs' = r.jobs
            /\ persisted' = IF r.saved THEN [jobs |-> r.jobs, ftp_targets |-> ftp_targets]
                            ELSE persisted
            /\ armed' = Rearm(r.raised)
            /\ firedInMinute' =
                   [i \in DOMAIN firedInMinute |->
                       firedInMinute[i] + Cardinality({k \in 1..Len(r.fired) : r.fired[k].idx = i})]
            /\ last' = [op |-> "tick", key |-> MinuteStamp(now), fired |-> r.fired,
                        raised |-> r.raised, logged |-> r.raised, ran |-> r.ran]
    /\ UNCHANGED <<ftp_targets, _running, now, edits, fs, res, stack, inflight>>

(***************************************************************************)
(* App.run_selected_job.                                                   *)
(***************************************************************************)
\* `last` after a manual run of job idx that ended as `run`.
ManualRun(idx, run) ==
    [op |-> "manual", key |-> NoKey,
     fired |-> <<[idx |-> idx, outcome |-> run.outcome, calls |-> run.calls]>>,
     raised |-> run.outcome # "ok", logged |-> run.outcome # "ok", ran |-> FALSE]

\* next((j for j in self.jobs if j.name == name), None): the first job of that name.
JobNamed(js, name) ==
    CHOOSE i \in 1..Len(js) :
        js[i].name = name /\ \A k \in 1..(i - 1) : js[k].name # name

\* The runs the user can start by hand: the job named in the dashboard's box (cmb_job
\* lists the names of self.jobs), with the faults its run can meet.
ManualChoices(js, targets) ==
    {[idx |-> JobNamed(js, js[i].name), fault |-> f] :
        i \in 1..Len(js), f \in FaultKinds} \cap
    {c \in [idx : 1..Len(js), fault : FaultKinds] : c.fault \in FaultsFor(js[c.idx], targets)}

\* The manual run also stamps the job with the minute it ran in.
RunSelectedJobWritingKey ==
    /\ \E c \in ManualChoices(jobs, ftp_targets) :
            /\ last' = ManualRun(c.idx, run_job(jobs[c.idx], ftp_targets, c.fault))
            /\ jobs' = [jobs EXCEPT ![c.idx].last_run_key = MinuteStamp(now)]
    /\ UNCHANGED <<ftp_targets, persisted, _running, armed, now, firedInMinute,
                   edits, fs, res, stack, inflight>>

\* The job named in the dashboard's box is run when the user confirms: run_job in a
\* try block whose except clause logs.  Nothing of the job is read but what run_job
\* reads, and nothing is written.
RunSelectedJob ==
    /\ \/ last' = NoTick
       \/ \E c \in ManualChoices(jobs, ftp_targets) :
            last' = ManualRun(c.idx, run_job(jobs[c.idx], ftp_targets, c.fault))
    /\ UNCHANGED <<jobs, ftp_targets, persisted, _running, armed, now, firedInMinute,
                   edits, fs, res, stack, inflight>>

(***************************************************************************)
(* App.toggle_scheduler.                                                   *)
(***************************************************************************)
ToggleScheduler ==
    /\ stack = <<>>
    /\ _running' = ~_running
    /\ last' = NoTick
    /\ UNCHANGED <<jobs, ftp_targets, persisted, armed, now, firedInMinute, edits, fs, res, stack, inflight>>

(***************************************************************************)
(* App.job_save.                                                           *)
(***************************************************************************)
\* The widgets of the Jobs tab as on_job_select fills them from job j.
FormOf(j) ==
    [name |-> j.name, enabled |-> j.enabled, mode |-> j.mode, ftp_target |-> j.ftp_target,
     local_folders |-> j.local_folders, ftp_folders |-> j.ftp_folders,
     schedule_enabled |-> j.schedule_enabled, days |-> j.days \cap AllDays,
     hour |-> j.hour, minute |-> j.minute, dry_run |-> j.dry_run]

\* The forms the user saves: the form of the selected job with one of the widgets
\* that the scheduler or run_job reads changed (or none).  The mode and target boxes
\* are read-only lists; hour 24 is an entry that job_save rejects.
FormsFor(j, targets) ==
    LET f == FormOf(j)
    IN  {f}
        \cup {[f EXCEPT !.enabled = ~f.enabled], [f EXCEPT !.schedule_enabled = ~f.schedule_enabled],
              [f EXCEPT !.hour = 24]}
        \cup {[f EXCEPT !.mode = m] : m \in {"local", "ftp"}}
        \cup {[f EXCEPT !.ftp_target = targets[k]] : k \in 1..Len(targets)}
        \cup {[f EXCEPT !.days = d] : d \in {{}, {0}, {1}}}
        \cup {[f EXCEPT !.hour = hm[1], !.minute = hm[2]] : hm \in SampleTimes}

\* The saved job starts with an empty last_run_key.
SavedJobResettingKey(j, f) ==
    [name |-> IF f.name = "" THEN j.name ELSE f.name,
     enabled |-> f.enabled,
     mode |-> IF f.mode = "" THEN "local" ELSE f.mode,
     local_folders |-> f.local_folders,
     ftp_target |-> f.ftp_target,
     ftp_folders |-> f.ftp_folders,
     schedule_enabled |-> f.schedule_enabled,
     days |-> IF f.days = {} THEN AllDays ELSE f.days,
     hour |-> f.hour, minute |-> f.minute,
     last_run_key |-> NoKey,
     dry_run |-> f.dry_run]

\* The Job that job_save builds from the form for the job j it replaces.
SavedJob(j, f) ==
    [name |-> IF f.name = "" THEN j.name ELSE f.name,
     enabled |-> f.enabled,
     mode |-> IF f.mode = "" THEN "local" ELSE f.mode,
     local_folders |-> f.local_folders,
     ftp_target |-> f.ftp_target,
     ftp_folders |-> f.ftp_folders,
     schedule_enabled |-> f.schedule_enabled,
     days |-> IF f.days = {} THEN AllDays ELSE f.days,
     hour |-> f.hour, minute |-> f.minute,
     last_run_key |-> j.last_run_key,
     dry_run |-> f.dry_run]

\* The selection of the jobs list (lst_jobs) when Save Job is pressed: the model
\* explores edits of the first job.
SelectedJobs(js) == IF js = <<>> THEN {} ELSE {1}

JobSave ==
    /\ edits < MaxEdits
    /\ \E idx \in SelectedJobs(jobs) : \E f \in FormsFor(jobs[idx], ftp_targets) :
        IF f.hour < 0 \/ f.hour > 23 \/ f.minute < 0 \/ f.minute > 59 THEN
            \* "Hour must be 0-23 and minute 0-59.": nothing is saved
            /\ last' = NoTick
            /\ UNCHANGED <<jobs, persisted, edits>>
        ELSE
            /\ jobs' = [jobs EXCEPT ![idx] = SavedJob(jobs[idx], f)]
            /\ persisted' = [jobs |-> jobs', ftp_targets |-> ftp_targets]
            /\ edits' = edits + 1
            /\ last' = [NoTick EXCEPT !.op = "job_save"]
    /\ UNCHANGED <<ftp_targets, _running, armed, now, firedInMinute, fs, res, stack, inflight>>

(***************************************************************************)
(* App.ftp_delete.                                                         *)
(***************************************************************************)
\* del self.ftp_targets[idx]
WithoutTarget(targets, idx) ==
    [k \in 1..(Len(targets) - 1) |-> IF k < idx THEN targets[k] ELSE targets[k + 1]]

\* The jobs that name the deleted target are reset to a local job without a target.
JobsAfterFtpDeleteCascading(js, name) ==
    [i \in 1..Len(js) |->
        IF js[i].ftp_target = name THEN [js[i] EXCEPT !.ftp_target = "", !.mode = "local"]
        ELSE js[i]]

\* "if jobs reference it, keep name but user must fix": the jobs are not touched.
JobsAfterFtpDelete(js, name) == js

\* The target selected in lst_ftp is deleted when the user confirms, and the
\* configuration is saved.
FtpDelete ==
    /\ \E idx \in 1..Len(ftp_targets) :
        \/ /\ last' = NoTick
           /\ UNCHANGED <<jobs, ftp_targets, persisted>>
        \/ /\ ftp_targets' = WithoutTarget(ftp_targets, idx)
           /\ jobs' = JobsAfterFtpDelete(jobs, ftp_targets[idx])
           /\ persisted' = [jobs |-> jobs', ftp_targets |-> ftp_targets']
           /\ last' = [NoTick EXCEPT !.op = "ftp_delete"]
    /\ UNCHANGED <<_running, armed, now, firedInMinute, edits, fs, res, stack, inflight>>

(***************************************************************************)
(* The wall clock.  Between two handlers any time may pass: the tick       *)
(* interval is max(5, tick_seconds) seconds with no upper limit, and a job *)
(* run lasts as long as its file and network operations.                   *)
(***************************************************************************)
Advance ==
    /\ \E t \in Instants : Later(t, now) /\ now' = t
    /\ firedInMinute' = [i \in DOMAIN firedInMinute |-> 0]
    /\ last' = NoTick
    /\ UNCHANGED <<jobs, ftp_targets, persisted, _running, armed, edits, fs, res, stack, inflight>>

(***************************************************************************)
(* The application after App.__init__.                                     *)
(***************************************************************************)
Init ==
    /\ jobs \in ConfigJobLists
    /\ ftp_targets = <<"T1">>
    /\ persisted = [jobs |-> jobs, ftp_targets |-> ftp_targets]
    /\ _running = FALSE
    /\ armed = TRUE
    /\ now = [day |-> 0, hour |-> 3, minute |-> 0]
    /\ firedInMinute = [i \in 1..Len(jobs) |-> 0]
    /\ edits = 0
    /\ last = NoTick
    /\ fs = EmptyTree("dir")
    /\ res = NoRun
    /\ stack = <<>>
    /\ inflight = <<>>

Next ==
    \/ Tick
    \/ RunSelectedJob
    \/ ToggleScheduler
    \/ JobSave
    \/ FtpDelete
    \/ Advance

Spec == Init /\ [][Next]_vars

(***************************************************************************)
(* SpecClean: the environment builds a tree, cleanup calls run on it.      *)
(***************************************************************************)
\* Another process creates a file in an existing directory.
CreateFile ==
    /\ fs.root = "dir"
    /\ Cardinality(Nodes(fs)) < MaxNodes
    /\ \E d \in DirsOf(fs), n \in FileNames :
        /\ Append(d, n) \notin Nodes(fs)
        /\ fs' = [fs EXCEPT !.files = @ \cup {Append(d, n)}]
    /\ res' = NoRun
    /\ UNCHANGED schedVars

\* Another process creates a directory in an existing directory.
MakeDir ==
    /\ fs.root = "dir"
    /\ Cardinality(Nodes(fs)) < MaxNodes
    /\ \E d \in DirsOf(fs), n \in DirNames :
        /\ Append(d, n) \notin Nodes(fs)
        /\ fs' = [fs EXCEPT !.dirs = @ \cup {Append(d, n)}]
    /\ res' = NoRun
    /\ UNCHANGED schedVars

Settings ==
    [exclude_files : ExcludeFileChoices, exclude_folders : ExcludeFolderChoices,
     dry_run : BOOLEAN]

\* The settings of a remote call: those of a local one and the folder as spelled.
FtpSettings ==
    [exclude_files : ExcludeFileChoices, exclude_folders : ExcludeFolderChoices,
     dry_run : BOOLEAN, remote_folder : RootSpellings]

Ran(backend, before, cfg, env, out) ==
    [op |-> backend, before |-> before, cfg |-> cfg, env |-> env,
     files_deleted |-> out.nf, dirs_removed |-> out.nd, calls |-> out.calls,
     warns |-> out.warns]

\* A cleanup call starts from a tree as the environment left it: every tree a call
\* leaves behind is also one the environment builds, so no (tree, inputs) pair is lost.
LocalCleanup ==
    /\ res = NoRun
    /\ \E cfg \in Settings : \E env \in FaultChoices(fs, "ok") :
        LET out == local_cleanup_folder(fs, cfg, env)
        IN  /\ fs' = out.fs
            /\ res' = Ran("local", fs, cfg, env, out)
    /\ UNCHANGED schedVars

FtpCleanup ==
    /\ res = NoRun
    /\ \E cfg \in FtpSettings : \E m \in {"ok", "raises"} :
       \E env \in FaultChoices(fs, m) :
        LET out == ftp_cleanup_folder(fs, cfg, env)
        IN  /\ fs' = out.fs
            /\ res' = Ran("ftp", fs, cfg, env, out)
    /\ UNCHANGED schedVars

InitClean ==
    /\ jobs = <<>>
    /\ ftp_targets = <<>>
    /\ persisted = [jobs |-> <<>>, ftp_targets |-> <<>>]
    /\ _running = FALSE
    /\ armed = TRUE
    /\ now = [day |-> 0, hour |-> 3, minute |-> 0]
    /\ firedInMinute = <<>>
    /\ edits = 0
    /\ last = NoTick
    /\ fs \in {EmptyTree(k) : k \in {"dir", "file", "missing"}}
    /\ res = NoRun
    /\ stack = <<>>
    /\ inflight = <<>>

NextClean ==
    \/ CreateFile
    \/ MakeDir
    \/ LocalCleanup
    \/ FtpCleanup

SpecClean == InitClean /\ [][NextClean]_vars

(***************************************************************************)
(* SpecLoop: the Tk thread, one step at a time.  The handlers of Spec are   *)
(* taken apart at their run_job calls and at the confirmation dialog, to    *)
(* see which handler can begin while another has not returned.  The timer   *)
(* callback of self.after and the commands of the buttons are dispatched by *)
(* an event loop of the one Tk thread: App().mainloop(), or the loop that   *)
(* messagebox.askyesno runs while its dialog is open.  The program starts   *)
(* no thread and no handler calls update().  The histories firedInMinute   *)
(* and last belong to the atomic handlers of Spec and are not kept here.   *)
(***************************************************************************)
\* A handler on the stack: h is "tick" or "manual"; pc its position ("loop": between
\* two jobs of the for loop, "dialog": in askyesno, "run": in run_job); i the index of
\* the job at hand; t the clock as _run_due_jobs read it; ran the jobs it has run.
Frame(h, pc, i, t, ran) == [h |-> h, pc |-> pc, i |-> i, t |-> t, ran |-> ran]

Top == stack[Len(stack)]
Pop == SubSeq(stack, 1, Len(stack) - 1)
Replace(f) == [stack EXCEPT ![Len(stack)] = f]

\* Handlers are dispatched at any time, also in the middle of a run.
EventLoopAlways(st) == TRUE

\* The Tk thread is in an event loop, which dispatches timer callbacks: the main
\* loop when no handler is on the stack, or the loop of the askyesno dialog.
EventLoop(st) ==
    IF st = <<>> THEN TRUE
    ELSE st[Len(st)].h = "manual" /\ st[Len(st)].pc = "dialog"

\* The widgets of the window take the user's clicks: the main loop is running and no
\* dialog has grabbed the input.
WindowActive(st) == st = <<>>

\* The pending after-callback fires: _tick begins, and with the scheduler running it
\* enters _run_due_jobs, which reads the clock once; with the scheduler stopped it
\* returns at once, re-armed.
TickBegins ==
    /\ armed /\ EventLoop(stack)
    /\ _running
    /\ armed' = FALSE
    /\ stack' = Append(stack, Frame("tick", "loop", 1, now, <<>>))
    /\ UNCHANGED <<jobs, ftp_targets, persisted, _running, now, firedInMinute, edits,
                   last, fs, res, inflight>>

\* for j in self.jobs: the next job is passed over, or its run_job call begins; after
\* the last one save_state runs if a job was run, _tick re-arms and returns.
TickLoop ==
    /\ stack # <<>> /\ Top.h = "tick" /\ Top.pc = "loop"
    /\ IF Top.i > Len(jobs) THEN
            /\ stack' = Pop
            /\ armed' = Rearm(FALSE)
            /\ persisted' = IF Top.ran # <<>> THEN [jobs |-> jobs, ftp_targets |-> ftp_targets]
                            ELSE persisted
            /\ UNCHANGED inflight
       ELSE IF ~IsDue(jobs[Top.i], Top.t) THEN
            /\ stack' = Replace([Top EXCEPT !.i = @ + 1])
            /\ UNCHANGED <<armed, persisted, inflight>>
       ELSE
            /\ stack' = Replace([Top EXCEPT !.pc = "run"])
            /\ inflight' = Append(inflight, [by |-> "tick", idx |-> Top.i])
            /\ UNCHANGED <<armed, persisted>>
    /\ UNCHANGED <<jobs, ftp_targets, _running, now, firedInMinute, edits, last, fs, res>>

\* The run_job call of the tick returns or raises: the finally clause stamps the job;
\* a raise leaves _run_due_jobs, and _tick logs it, re-arms and returns.
TickRunEnds ==
    /\ stack # <<>> /\ Top.h = "tick" /\ Top.pc = "run"
    /\ jobs' = [jobs EXCEPT ![Top.i].last_run_key =
                    KeyAfterRun(@, MinuteStamp(Top.t), "ok")]
    /\ inflight' = SubSeq(inflight, 1, Len(inflight) - 1)
    /\ \/ /\ stack' = Replace([Top EXCEPT !.pc = "loop", !.i = @ + 1,
                                           !.ran = Append(@, Top.i)])
          /\ UNCHANGED armed
       \/ /\ stack' = Pop
          /\ armed' = Rearm(TRUE)
    /\ UNCHANGED <<ftp_targets, persisted, _running, now, firedInMinute, edits, last,
                   fs, res>>

\* "Run selected job" is pressed: the job named in the box is looked up and the
\* confirmation dialog opens.
ManualBegins ==
    /\ WindowActive(stack)
    /\ \E c \in ManualChoices(jobs, ftp_targets) :
        stack' = Append(stack, Frame("manual", "dialog", c.idx, now, <<>>))
    /\ UNCHANGED <<jobs, ftp_targets, persisted, _running, armed, now, firedInMinute,
                   edits, last, fs, res, inflight>>

\* The user answers the dialog: "no" returns, "yes" begins the run_job call.
ManualAnswered ==
    /\ stack # <<>> /\ Top.h = "manual" /\ Top.pc = "dialog"
    /\ \/ stack' = Pop /\ UNCHANGED inflight
       \/ /\ stack' = Replace([Top EXCEPT !.pc = "run"])
          /\ inflight' = Append(inflight, [by |-> "manual", idx |-> Top.i])
    /\ UNCHANGED <<jobs, ftp_targets, persisted, _running, armed, now, firedInMinute,
                   edits, last, fs, res>>

\* The run_job call of the manual run returns or raises (the except clause logs).
ManualRunEnds ==
    /\ stack # <<>> /\ Top.h = "manual" /\ Top.pc = "run"
    /\ stack' = Pop
    /\ inflight' = SubSeq(inflight, 1, Len(inflight) - 1)
    /\ UNCHANGED <<jobs, ftp_targets, persisted, _running, armed, now, firedInMinute,
                   edits, last, fs, res>>

NextLoop ==
    \/ TickBegins
    \/ TickLoop
    \/ TickRunEnds
    \/ ManualBegins
    \/ ManualAnswered
    \/ ManualRunEnds
    \/ ToggleScheduler
    \/ Advance

SpecLoop == Init /\ [][NextLoop]_vars

(***************************************************************************)
(* Properties of the scheduler, checked under Spec.                        *)
(***************************************************************************)
\* The weekday, hour and minute of instant t are those of job j's schedule, and the
\* job has both switches on.
SlotMatches(j, t) ==
    /\ j.enabled = TRUE
    /\ j.schedule_enabled = TRUE
    /\ (t.day % 7) \in j.days
    /\ j.hour = t.hour
    /\ j.minute = t.minute

\* The indices of the jobs the most recent tick ran.
LastFired == {last.fired[k].idx : k \in 1..Len(last.fired)}

\* C1: within one calendar minute the scheduler calls run_job for a job at most once,
\* however many ticks fall into the minute; once the job has fired, its last_run_key
\* is the minute-stamp of that minute.
C1_AtMostOncePerMinute ==
    \A i \in DOMAIN firedInMinute :
        /\ firedInMinute[i] <= 1
        /\ firedInMinute[i] = 1 => jobs[i].last_run_key = <<now.day, now.hour, now.minute>>

\* C1 witness: a tick of the running scheduler that ran nothing although a job that
\* fired earlier in this minute still matches the minute.
C1_Witness ==
    /\ last.op = "tick" /\ last.ran /\ last.fired = <<>>
    /\ \E i \in DOMAIN firedInMinute :
        firedInMinute[i] = 1 /\ SlotMatches(jobs[i], now)

\* C2: every job a tick runs is enabled and schedule-enabled, has the current weekday
\* in its days, and has the current hour and minute as its hour and minute.
C2_FiresOnlyInItsSlot ==
    last.op = "tick" => \A i \in LastFired : SlotMatches(jobs[i], now)

\* C2 witness: a tick ran one job and left out an enabled, schedule-enabled job set
\* to this time of day whose days do not hold the current weekday.
C2_Witness ==
    /\ last.op = "tick" /\ Len(last.fired) = 1
    /\ \E i \in DOMAIN firedInMinute :
        /\ i \notin LastFired
        /\ jobs[i].enabled /\ jobs[i].schedule_enabled
        /\ jobs[i].hour = now.hour /\ jobs[i].minute = now.minute
        /\ jobs[i].days # {} /\ (now.day % 7) \notin jobs[i].days

\* C3 (as claimed): no slot is skipped.  When the clock leaves a minute right after
\* a tick in which the running scheduler evaluated its jobs, every job whose schedule
\* matches that minute has been fired for it.
C3_NeverSkipsASlot ==
    [][(now' # now /\ _running /\ last.op = "tick" /\ last.ran) =>
          \A i \in DOMAIN firedInMinute :
              SlotMatches(jobs[i], now) =>
                  jobs[i].last_run_key = <<now.day, now.hour, now.minute>>]_vars

\* C4 (as claimed): an empty days list counts as all seven weekdays.  After a tick of
\* the running scheduler in which no run raised, every enabled, schedule-enabled job
\* with days = [] whose hour and minute are the current ones has fired in this minute.
C4_EmptyDaysMeansEveryDay ==
    (last.op = "tick" /\ last.ran /\ ~last.raised) =>
        \A i \in DOMAIN firedInMinute :
            (/\ jobs[i].days = {}
             /\ jobs[i].enabled /\ jobs[i].schedule_enabled
             /\ jobs[i].hour = now.hour /\ jobs[i].minute = now.minute)
            => jobs[i].last_run_key = <<now.day, now.hour, now.minute>>

\* C5: after a tick, every job the tick ran carries the tick's minute-stamp as its
\* last_run_key, whether its run returned or raised, and no job is run a second time
\* in the minute.
C5_KeySetWhateverTheOutcome ==
    /\ last.op = "tick" =>
           \A k \in 1..Len(last.fired) :
               jobs[last.fired[k].idx].last_run_key = <<now.day, now.hour, now.minute>>
    /\ \A i \in DOMAIN firedInMinute :
           (firedInMinute[i] >= 1 /\ jobs[i].mode \notin {"local", "ftp"}) =>
               firedInMinute[i] = 1

\* C5 witness: a tick of the running scheduler left out a job whose run raised earlier
\* in this minute (its mode is unknown) and whose schedule still matches the minute.
C5_Witness ==
    /\ last.op = "tick" /\ last.ran
    /\ \E i \in DOMAIN firedInMinute :
        /\ i \notin LastFired
        /\ firedInMinute[i] = 1
        /\ jobs[i].mode \notin {"local", "ftp"}
        /\ SlotMatches(jobs[i], now)

\* C6: a next tick is pending after every tick, also one whose body raised, and the
\* error of such a tick has been logged.
C6_TickAlwaysRearmed ==
    /\ armed
    /\ (last.op = "tick" /\ last.raised) => last.logged

\* C6 witness: a tick in which a job run raised has re-armed the next tick.
C6_Witness ==
    /\ last.op = "tick" /\ last.raised /\ last.fired # <<>>
    /\ armed

(***************************************************************************)
(* Properties of the cleanup functions, checked under SpecClean.           *)
(***************************************************************************)
\* The directories whose files a call gets to: all of them on the local backend; on
\* the remote one those with no excluded directory name on the path from the root.
Visited(backend, cfg, d) ==
    \/ backend = "local"
    \/ \A k \in 1..Len(d) : ~matches_any(d[k], cfg.exclude_folders)

\* C7: a dry run changes nothing.  After a cleanup call with dry_run = true, on either
\* backend, the tree is the tree the call started from, and the call issued no
\* unlink, rmdir, DELE or RMD.
C7_DryRunMutatesNothing ==
    (res.op # "none" /\ res.cfg.dry_run) =>
        /\ fs = res.before
        /\ \A k \in 1..Len(res.calls) : res.calls[k].op \notin Mutating

\* C7 witness: a dry run that counted a file and a directory.
C7_Witness ==
    /\ res.op # "none" /\ res.cfg.dry_run
    /\ res.files_deleted >= 1 /\ res.dirs_removed >= 1
    /\ fs.files # {} /\ fs.dirs # {}

\* C8 (as claimed): with no failing backend operation, a dry run returns the counters
\* (files_deleted, dirs_removed) that a real run on the same tree returns.
C8_DryRunCountsAsRealRun ==
    (res.op # "none" /\ res.env = NoFaults("ok")) =>
        LET dry == CleanupOf(res.op, res.before, [res.cfg EXCEPT !.dry_run = TRUE], res.env)
            real == CleanupOf(res.op, res.before, [res.cfg EXCEPT !.dry_run = FALSE], res.env)
        IN  dry.nf = real.nf /\ dry.nd = real.nd

\* C9: a file whose basename matches an exclude_files pattern survives every cleanup
\* call, and no delete call names such a file; after a real run without failures no
\* file with a basename that matches no pattern is left in a directory the call got to.
C9_ExcludedFilesKept ==
    res.op # "none" =>
        /\ \A f \in res.before.files :
               matches_any(f[Len(f)], res.cfg.exclude_files) => f \in fs.files
        /\ \A k \in 1..Len(res.calls) :
               res.calls[k].op \in {"unlink", "dele"} =>
                   ~matches_any(res.calls[k].path[Len(res.calls[k].path)],
                                res.cfg.exclude_files)
        /\ (~res.cfg.dry_run /\ res.env = NoFaults(res.env.mlsd)) =>
               \A f \in res.before.files :
                   (/\ ~matches_any(f[Len(f)], res.cfg.exclude_files)
                    /\ Visited(res.op, res.cfg, SubSeq(f, 1, Len(f) - 1)))
                   => f \notin fs.files

\* C9 witness: a real run with the pattern *.json on a directory that held a.json
\* and b.log left a.json and removed b.log.
C9_Witness ==
    /\ res.op # "none" /\ ~res.cfg.dry_run
    /\ res.cfg.exclude_files = <<PatJsonBlank>>
    /\ res.env = NoFaults(res.env.mlsd)
    /\ \E d \in DirsOf(res.before) :
        /\ d # <<>>
        /\ {Append(d, NameAJson), Append(d, NameBLog)} \subseteq res.before.files
        /\ Append(d, NameAJson) \in fs.files
        /\ Append(d, NameBLog) \notin fs.files

\* C10 (as claimed): every rmdir / RMD a cleanup call issues names a directory that
\* has no children at the moment of the call.
C10_RemoveOnlyEmptyDirs ==
    res.op # "none" =>
        \A k \in 1..Len(res.calls) :
            res.calls[k].op \in {"rmdir", "rmd"} => res.calls[k].children = 0

\* C11: the root folder of a cleanup call is never removed, on either backend and
\* however the remote root is spelled: no rmdir / RMD names the root, and a root that
\* was a directory before the call is one after it, also when the call emptied it.
C11_RootNeverRemoved ==
    res.op # "none" =>
        /\ fs.root = res.before.root
        /\ \A k \in 1..Len(res.calls) :
               res.calls[k].op \in {"rmdir", "rmd"} => res.calls[k].path # <<>>

\* C11 witness: a real remote run on a root spelled with a backslash emptied the root
\* by deleting a file and removing a directory, and the root is still there.
C11_Witness ==
    /\ res.op = "ftp" /\ ~res.cfg.dry_run
    /\ res.cfg.remote_folder = <<"\\", "r">>
    /\ res.files_deleted >= 1 /\ res.dirs_removed >= 1
    /\ fs.root = "dir" /\ fs.dirs = {} /\ fs.files = {}

\* Path p is an excluded directory or lies below one: one of its names matches an
\* exclude_folders pattern.
UnderExcluded(cfg, p) ==
    \E k \in 1..Len(p) : matches_any(p[k], cfg.exclude_folders)

\* C12 (as claimed): a remote cleanup issues no list, DELE or RMD call for an
\* excluded directory or for any path below one, and leaves every file and directory
\* there in place.
C12_FtpExcludedSubtreeUntouched ==
    res.op = "ftp" =>
        /\ \A k \in 1..Len(res.calls) : ~UnderExcluded(res.cfg, res.calls[k].path)
        /\ \A p \in Nodes(res.before) : UnderExcluded(res.cfg, p) => p \in Nodes(fs)

\* C13: a local cleanup never removes a directory whose basename matches an
\* exclude_folders pattern: the directory is there after the call and no rmdir names
\* it, also when the call deleted all of its files.
C13_LocalExcludedDirKept ==
    res.op = "local" =>
        \A d \in res.before.dirs :
            matches_any(d[Len(d)], res.cfg.exclude_folders) =>
                /\ d \in fs.dirs
                /\ \A k \in 1..Len(res.calls) :
                       res.calls[k].op = "rmdir" => res.calls[k].path # d

\* C13 witness: a real local run deleted the only file of an excluded directory and
\* left the directory, now empty, in place.
C13_Witness ==
    /\ res.op = "local" /\ ~res.cfg.dry_run
    /\ \E d \in res.before.dirs :
        /\ matches_any(d[Len(d)], res.cfg.exclude_folders)
        /\ Children(res.before, d) # {}
        /\ Children(fs, d) = {}
        /\ d \in fs.dirs

\* C14: after a real run in which nothing failed, no directory the call got to, other
\* than the root and the excluded ones, is left without children; and after any run a
\* directory that held a file with an excluded name is still there.
C14_EmptyDirsRemoved ==
    res.op # "none" =>
        /\ (~res.cfg.dry_run /\ res.env = NoFaults(res.env.mlsd)) =>
               \A d \in fs.dirs :
                   (/\ Visited(res.op, res.cfg, d)
                    /\ ~matches_any(d[Len(d)], res.cfg.exclude_folders))
                   => Children(fs, d) # {}
        /\ \A d \in res.before.dirs :
               (\E f \in Children(res.before, d) \cap res.before.files :
                    matches_any(f[Len(f)], res.cfg.exclude_files))
               => d \in fs.dirs

\* C14 witness: a real run without failures removed a directory and kept one that
\* holds a file with an excluded name.
C14_Witness ==
    /\ res.op # "none" /\ ~res.cfg.dry_run /\ res.env = NoFaults(res.env.mlsd)
    /\ \E d \in res.before.dirs : d \notin fs.dirs
    /\ \E d \in fs.dirs : \E f \in Children(fs, d) \cap fs.files :
           matches_any(f[Len(f)], res.cfg.exclude_files)

\* C15: a real run without failures leaves a tree on which the same call, made again
\* at once, returns (0, 0), issues no deleting or removing call and changes nothing;
\* when the root is a directory it logs no warning either.
C15_SecondRunDoesNothing ==
    (res.op # "none" /\ ~res.cfg.dry_run /\ res.env = NoFaults(res.env.mlsd)) =>
        LET again == CleanupOf(res.op, fs, res.cfg, res.env)
        IN  /\ again.nf = 0 /\ again.nd = 0
            /\ again.fs = fs
            /\ \A k \in 1..Len(again.calls) : again.calls[k].op \notin Mutating
            /\ fs.root = "dir" => again.warns = 0

\* C15 witness: a real run without failures deleted a file, removed a directory and
\* left a file behind.
C15_Witness ==
    /\ res.op # "none" /\ ~res.cfg.dry_run /\ res.env = NoFaults(res.env.mlsd)
    /\ res.files_deleted >= 1 /\ res.dirs_removed >= 1
    /\ fs.files # {}

\* Path p is a proper prefix of path q.
IsAbove(p, q) == Len(p) < Len(q) /\ SubSeq(q, 1, Len(p)) = p

\* C16: a real run in which the delete of one file f fails does, apart from f, what
\* the run without the failure does.  f is still there and was not counted; one more
\* warning is logged; every other file is deleted or kept as without the failure;
\* the only directories kept in addition are those above f, which now are not empty;
\* the counters are the numbers of files and directories actually gone.
C16_DeleteFailureIsSkipped ==
    (res.op # "none" /\ ~res.cfg.dry_run /\ res.env.noDelete # {}) =>
        LET f == CHOOSE x \in res.env.noDelete : TRUE
            ok == CleanupOf(res.op, res.before, res.cfg, NoFaults(res.env.mlsd))
            tried == f \notin ok.fs.files
        IN  /\ f \in fs.files
            /\ fs.files = ok.fs.files \cup {f}
            /\ ok.fs.dirs \subseteq fs.dirs
            /\ \A d \in fs.dirs \ ok.fs.dirs : IsAbove(d, f)
            /\ res.files_deleted = Cardinality(res.before.files \ fs.files)
            /\ res.dirs_removed = Cardinality(res.before.dirs \ fs.dirs)
            /\ res.warns = ok.warns + (IF tried THEN 1 ELSE 0)

\* C16 witness: the delete of a file in a subdirectory failed with a warning, and the
\* run went on to delete a file of the directory above.
C16_Witness ==
    /\ res.op # "none" /\ ~res.cfg.dry_run
    /\ \E f \in res.env.noDelete : Len(f) = 2 /\ f \in fs.files
    /\ res.warns = 1 /\ res.files_deleted = 1
    /\ \E g \in res.before.files : Len(g) = 1 /\ g \notin fs.files

(***************************************************************************)
(* Properties of run_job, checked under Spec.                              *)
(***************************************************************************)
\* The cleanup calls among the calls of a run.
CleanupCalls(calls) == SelectSeq(calls, LAMBDA c : c.op \in {"local", "ftp"})

\* The folders run_job goes through for a job.
FoldersOf(job) == IF job.mode = "local" THEN job.local_folders ELSE job.ftp_folders

\* What the two cleanup functions do on a folder with nothing in it, on both
\* backends, with every setting and either listing behaviour of the server: they
\* return and log what OnEmptyFolder says, leave the folder as it is and issue no
\* deleting or removing call; for a missing folder and for a file that is (0, 0) and
\* one warning.
EmptyFolderCalls ==
    \A kind \in {"missing", "file", "dir"}, backend \in {"local", "ftp"},
       m \in {"ok", "raises"} :
        \A cfg \in FtpSettings :
            LET out == CleanupOf(backend, EmptyTree(kind), cfg, NoFaults(m))
            IN  /\ [nf |-> out.nf, nd |-> out.nd, warns |-> out.warns] = OnEmptyFolder(kind)
                /\ kind # "dir" => out.nf = 0 /\ out.nd = 0 /\ out.warns = 1
                /\ out.fs = EmptyTree(kind)
                /\ \A k \in 1..Len(out.calls) : out.calls[k].op \notin Mutating

\* C17: a cleanup call whose root is missing or is not a directory returns (0, 0),
\* logs one warning and changes nothing, on both backends and with every setting;
\* and a run that returns has made one cleanup call per configured folder, in order,
\* none of which raised: after a missing folder it went on to the next one.
C17_MissingRootIsSkipped ==
    /\ EmptyFolderCalls
    /\ \A k \in 1..Len(last.fired) :
           LET r == last.fired[k]
               made == CleanupCalls(r.calls)
               folders == FoldersOf(jobs[r.idx])
           IN  r.outcome = "ok" =>
                   /\ Len(made) = Len(folders)
                   /\ \A n \in 1..Len(made) :
                          /\ made[n].folder = folders[n] /\ ~made[n].raised
                          /\ folders[n] # "dir" =>
                                 made[n].nf = 0 /\ made[n].nd = 0 /\ made[n].warns = 1

\* C17 witness: a tick ran an ftp job that found its first folder missing, logged the
\* warning and went on to its last folder, a directory.
C17_Witness ==
    /\ last.op = "tick"
    /\ \E k \in 1..Len(last.fired) :
           LET made == CleanupCalls(last.fired[k].calls)
           IN  /\ last.fired[k].outcome = "ok" /\ jobs[last.fired[k].idx].mode = "ftp"
               /\ Len(made) = 3
               /\ made[1].folder = "missing" /\ made[1].warns = 1
               /\ made[3].folder = "dir" /\ made[3].warns = 0

\* C18: a run of an ftp job whose ftp_target names no entry of ftp_targets raises
\* target-not-found before it has opened a connection or made a cleanup call; the
\* error is logged, and after a tick or a manual run that met it the next tick is
\* still pending.
C18_TargetNotFoundBeforeConnect ==
    \A k \in 1..Len(last.fired) :
        LET r == last.fired[k]
            job == jobs[r.idx]
        IN  (job.mode = "ftp" /\ ~TargetFound(job, ftp_targets)) =>
                /\ r.outcome = "target_not_found"
                /\ r.calls = <<>>
                /\ last.raised /\ last.logged
                /\ armed

\* C18 witness: with the scheduler running, a manual run of a job whose target is
\* gone has raised target-not-found.
C18_Witness ==
    /\ last.op = "manual" /\ _running /\ armed
    /\ last.fired[1].outcome = "target_not_found"
    /\ jobs[last.fired[1].idx].mode = "ftp"

\* C19: a run of a job whose mode is neither "local" nor "ftp" raises the unknown-mode
\* error, which is logged, before it has opened a connection or made a cleanup call.
C19_UnknownModeAborts ==
    \A k \in 1..Len(last.fired) :
        LET r == last.fired[k]
        IN  jobs[r.idx].mode \notin {"local", "ftp"} =>
                /\ r.outcome = "unknown_mode"
                /\ r.calls = <<>>
                /\ last.raised /\ last.logged

\* C19 witness: a tick ran a job with an unknown mode.
C19_Witness ==
    /\ last.op = "tick"
    /\ \E k \in 1..Len(last.fired) :
           /\ jobs[last.fired[k].idx].mode \notin {"local", "ftp"}
           /\ last.fired[k].outcome = "unknown_mode"

\* C20 (as claimed): a run of an ftp job opens at most one connection, and when
\* run_job returns or raises every connection it opened has been closed.
C20_OneSessionAlwaysClosed ==
    \A k \in 1..Len(last.fired) :
        LET c == last.fired[k].calls
            opened == {n \in 1..Len(c) : c[n].op = "connect" /\ ~c[n].raised}
            closed == {n \in 1..Len(c) : c[n].op = "close"}
        IN  Cardinality(opened) <= 1 /\ Cardinality(closed) = Cardinality(opened)

(***************************************************************************)
(* Properties of the manual run and of the configuration edits, checked    *)
(* under Spec.                                                             *)
(***************************************************************************)
\* The manual run of job idx can be started.
CanRunManually(idx) ==
    \E c \in ManualChoices(jobs, ftp_targets) : c.idx = idx

\* C21: every job of the list can be run by hand, whatever its enabled and
\* schedule_enabled flags, its days, its time and its last_run_key; and a manual run
\* leaves every job (the last_run_key with it) and the saved configuration as they
\* were, so that the jobs that were due before it are still due after it.
C21_ManualRunIgnoresSchedule ==
    /\ [](\A idx \in 1..Len(jobs) : CanRunManually(idx))
    /\ [][last'.op = "manual" =>
             /\ jobs' = jobs /\ persisted' = persisted
             /\ \A i \in 1..Len(jobs) : IsDue(jobs'[i], now') <=> IsDue(jobs[i], now)]_vars

\* A job that the scheduler had fired in this minute was run by hand in the same minute.
C21_Witness ==
    /\ last.op = "manual"
    /\ jobs[last.fired[1].idx].last_run_key = MinuteStamp(now)
    /\ firedInMinute[last.fired[1].idx] = 1
\* C23: deleting an FTP target takes that one target out of the list and leaves the
\* job list and every field of every job as they were, the ftp_target of the jobs that
\* named it included; the deletion itself raises nothing, and a run ends with "FTP
\* target not found" exactly when it is the run of an ftp job whose target is not in
\* the list.
C23_FtpDeleteKeepsJobs ==
    /\ [][ftp_targets' # ftp_targets =>
             /\ \E idx \in 1..Len(ftp_targets) : ftp_targets' = WithoutTarget(ftp_targets, idx)
             /\ jobs' = jobs
             /\ persisted'.jobs = jobs
             /\ ~last'.raised /\ last'.fired = <<>>]_vars
    /\ [](\A k \in 1..Len(last.fired) :
             last.fired[k].outcome = "target_not_found"
                 <=> /\ jobs[last.fired[k].idx].mode = "ftp"
                     /\ ~TargetFound(jobs[last.fired[k].idx], ftp_targets))

\* The target T1 was deleted, a job still names it, and the run of that job has ended
\* with "FTP target not found".
C23_Witness ==
    /\ ftp_targets = <<>>
    /\ last.fired # <<>>
    /\ jobs[last.fired[1].idx].ftp_target = "T1"
    /\ last.fired[1].outcome = "target_not_found"
\* C24: the saved configuration equals the job list and the target list in memory
\* after every handler: after each edit and after each tick that wrote a last_run_key,
\* also one in which a fired job raised.
C24_SavedAfterEveryMutation ==
    persisted = [jobs |-> jobs, ftp_targets |-> ftp_targets]
\* C28: a tick of the running scheduler fires every job that was due when it began,
\* also the jobs that follow, in the list, a job whose run raised.
C28_RaisingRunDoesNotStopTheTick ==
    [][(last'.op = "tick" /\ last'.ran) =>
          \A i \in 1..Len(jobs) :
              IsDue(jobs[i], now) => \E k \in 1..Len(last'.fired) : last'.fired[k].idx = i]_vars
\* C30: job_save puts the form's values into the job and carries its last_run_key
\* over, and leaves the other jobs alone; so a job that has fired in this minute is
\* not due after an edit, whatever the edit, and is not fired twice in the minute.
C30_JobSaveCarriesLastRunKey ==
    /\ [][edits' # edits =>
             /\ Len(jobs') = Len(jobs)
             /\ \A i \in 1..Len(jobs) :
                   /\ jobs'[i].last_run_key = jobs[i].last_run_key
                   /\ jobs'[i] # jobs[i] =>
                         \E f \in FormsFor(jobs[i], ftp_targets) :
                             /\ FormOf(jobs'[i]) = [f EXCEPT !.days = IF @ = {} THEN AllDays ELSE @]
                             /\ persisted'.jobs[i] = jobs'[i]]_vars
    /\ [](\A i \in DOMAIN firedInMinute :
             /\ firedInMinute[i] <= 1
             /\ firedInMinute[i] = 1 => ~IsDue(jobs[i], now))

\* A job that has fired in this minute has just been saved with values that match
\* this minute, while the scheduler runs.
C30_Witness ==
    /\ last.op = "job_save" /\ _running
    /\ firedInMinute[1] = 1
    /\ SlotMatches(jobs[1], now)
(***************************************************************************)
(* Properties of the Tk thread, checked under SpecLoop.                    *)
(***************************************************************************)
\* C22: at most one run_job call has begun and not ended, so the runs of a tick and a
\* manual run never overlap; and a tick runs its jobs one after the other in the
\* order of the job list: when a run of it is in flight, the jobs it ran before have
\* smaller indices, and the run in flight is the one of the job at hand.
C22_OneRunAtATime ==
    /\ Len(inflight) <= 1
    /\ \A n \in 1..Len(stack) :
        stack[n].h = "tick" =>
            /\ \A a, b \in 1..Len(stack[n].ran) : a < b => stack[n].ran[a] < stack[n].ran[b]
            /\ \A a \in 1..Len(stack[n].ran) : stack[n].ran[a] < stack[n].i
            /\ stack[n].pc = "run" => inflight = <<[by |-> "tick", idx |-> stack[n].i]>>

\* The timer fired while the confirmation dialog of a manual run was open, and the
\* tick is in the run of its second job with the first one done.
C22_Witness ==
    /\ Len(stack) = 2
    /\ stack[1].h = "manual" /\ stack[1].pc = "dialog"
    /\ stack[2].h = "tick" /\ stack[2].pc = "run" /\ stack[2].ran = <<1>>
    /\ inflight = <<[by |-> "tick", idx |-> 2]>>
(***************************************************************************)
(* Further properties of the cleanup functions, checked under SpecClean.   *)
(***************************************************************************)
\* C25: a real local run without failures deletes a file that lies in or below a
\* directory with an excluded name exactly when the file's own basename matches no
\* exclude_files pattern, and leaves the excluded directory itself in place; a remote
\* run leaves every file in or below a directory with an excluded name in place.
C25_LocalDeletesInsideExcludedFolders ==
    /\ (res.op = "local" /\ ~res.cfg.dry_run /\ res.env = NoFaults("ok")) =>
           \A f \in res.before.files :
               UnderExcluded(res.cfg, Parent(f)) =>
                   /\ f \in fs.files <=> matches_any(Basename(f), res.cfg.exclude_files)
                   /\ \A n \in 1..(Len(f) - 1) :
                          matches_any(f[n], res.cfg.exclude_folders)
                              => SubSeq(f, 1, n) \in fs.dirs
    /\ res.op = "ftp" =>
           \A f \in res.before.files : UnderExcluded(res.cfg, Parent(f)) => f \in fs.files

\* A real local run without failures on an excluded directory that held a.json and
\* b.log, with the file pattern *.json: b.log is gone, a.json and the directory are
\* still there.
C25_Witness ==
    /\ res.op = "local" /\ ~res.cfg.dry_run /\ res.env = NoFaults("ok")
    /\ res.cfg.exclude_folders = <<NameConfig>> /\ res.cfg.exclude_files = <<PatJsonBlank>>
    /\ {<<NameConfig, NameAJson>>, <<NameConfig, NameBLog>>} \subseteq res.before.files
    /\ <<NameConfig, NameBLog>> \notin fs.files
    /\ <<NameConfig, NameAJson>> \in fs.files
    /\ <<NameConfig>> \in fs.dirs
\* What C26 says of a real run in which the removal of one directory d fails, apart
\* from the warning: d is still there and was not counted, the files are deleted or
\* kept as without the failure, the only directories kept in addition are d and those
\* above it, and the counters are the numbers of files and directories actually gone.
RmdirFailureIsSkipped(d, ok) ==
    /\ d \in fs.dirs
    /\ fs.files = ok.fs.files
    /\ ok.fs.dirs \subseteq fs.dirs
    /\ \A e \in fs.dirs \ ok.fs.dirs : e = d \/ IsAbove(e, d)
    /\ res.files_deleted = Cardinality(res.before.files \ fs.files)
    /\ res.dirs_removed = Cardinality(res.before.dirs \ fs.dirs)

\* C26: a real run in which the removal of one empty directory d fails skips d as
\* above and logs one warning more than the run without the failure, when that run
\* removes d.
C26_RmdirFailureIsWarned ==
    (res.op # "none" /\ ~res.cfg.dry_run /\ res.env.noRmdir # {}) =>
        LET d == CHOOSE x \in res.env.noRmdir : TRUE
            ok == CleanupOf(res.op, res.before, res.cfg, NoFaults(res.env.mlsd))
            tried == d \notin ok.fs.dirs
        IN  /\ RmdirFailureIsSkipped(d, ok)
            /\ res.warns = ok.warns + (IF tried THEN 1 ELSE 0)
\* Path p is directory d or lies below it.
Within(d, p) == p = d \/ IsAbove(d, p)

\* The one directory whose enumeration fails in the call, if there is one.
Unlisted == res.env.noList \cup res.env.noNlst

\* C27: a call in which the enumeration of one directory d fails (it cannot be
\* entered or read, or the NLST of the fallback is refused), and which gets to d,
\* logs a warning and takes d for empty: d and everything below it are left in place
\* and no deleting or removing call names them; every file outside d is deleted or
\* kept as without the failure, and so is every directory that is neither in d nor
\* above it.
C27_ListFailureIsWarnedAndSkipped ==
    (res.op # "none" /\ Unlisted # {}) =>
        LET d == CHOOSE x \in Unlisted : TRUE
            ok == CleanupOf(res.op, res.before, res.cfg, NoFaults(res.env.mlsd))
        IN  (res.before.root = "dir" /\ Visited(res.op, res.cfg, d)) =>
                /\ res.warns >= 1
                /\ \A p \in Nodes(res.before) : Within(d, p) => p \in Nodes(fs)
                /\ \A k \in 1..Len(res.calls) :
                       res.calls[k].op \in Mutating => ~Within(d, res.calls[k].path)
                /\ \A f \in res.before.files :
                       ~Within(d, f) => (f \in fs.files <=> f \in ok.fs.files)
                /\ \A e \in res.before.dirs :
                       (~Within(d, e) /\ ~IsAbove(e, d)) => (e \in fs.dirs <=> e \in ok.fs.dirs)
\* items holds every child of directory d of tree t once, and nothing else, with
\* is_dir true exactly for the children that are directories.
ListsExactly(t, d, items) ==
    /\ \A c \in Children(t, d) :
           Cardinality({k \in 1..Len(items) : items[k][1] = Basename(c)}) = 1
    /\ \A k \in 1..Len(items) :
           \E c \in Children(t, d) :
               items[k][1] = Basename(c) /\ items[k][2] = (c \in t.dirs)

\* C29: whenever list_dir returns for a directory of the tree a remote call starts
\* from, with MLSD working or raising, it returns every child of the directory once,
\* with is_dir true exactly for the directories.
C29_ListDirExactlyOnce ==
    res.op = "ftp" =>
        \A d \in DirsOf(res.before) :
            LET r == list_dir(res.before, res.env, d)
            IN  ~r.raised => ListsExactly(res.before, d, r.items)
(***************************************************************************)
(* The scheduler switch, checked under Spec.                               *)
(***************************************************************************)
\* C31: the scheduler starts stopped; a tick of the stopped scheduler runs no job and
\* leaves every job, its last_run_key included, and the saved configuration as they
\* were, also when jobs are due; a step that changes the switch flips it and changes
\* nothing else of the jobs and the pending tick; and a tick is pending in every
\* state, with the scheduler stopped or running.
C31_StoppedSchedulerFiresNothing ==
    /\ ~_running
    /\ [][(last'.op = "tick" /\ ~_running) =>
             /\ last'.fired = <<>>
             /\ jobs' = jobs /\ persisted' = persisted
             /\ armed']_vars
    /\ [][_running' # _running =>
             /\ _running' = ~_running
             /\ jobs' = jobs /\ armed' = armed]_vars
    /\ [](armed /\ ((last.op = "tick" /\ ~_running) => (~last.ran /\ last.fired = <<>>)))

\* A tick of the stopped scheduler has passed over a job that is due, and the next
\* tick is pending.
C31_Witness ==
    /\ last.op = "tick" /\ ~_running /\ last.fired = <<>>
    /\ \E i \in 1..Len(jobs) : IsDue(jobs[i], now)
    /\ armed
(***************************************************************************)
(* Where the cleanup functions delete, checked under SpecClean.            *)
(***************************************************************************)
\* String s names something strictly below the directory named by root: it is root
\* without trailing slashes, a slash, and at least one character more.
StrictlyBelow(root, s) ==
    LET base == RStripSlash(root)
    IN  /\ Len(s) > Len(base) + 1
        /\ SubSeq(s, 1, Len(base) + 1) = base \o <<"/">>

\* C32: every unlink, rmdir, DELE and RMD of a cleanup call names a file or directory
\* that was in the tree below the root when the call began, never the root itself.
\* For a remote call the root the walk starts from begins with a slash and holds no
\* backslash, and the path string sent with DELE or RMD is that root, a slash and
\* the names on the way down.
C32_DeletesOnlyBelowRoot ==
    res.op # "none" =>
        /\ \A k \in 1..Len(res.calls) :
               res.calls[k].op \in Mutating =>
                   /\ res.calls[k].path # <<>>
                   /\ res.calls[k].path \in Nodes(res.before)
        /\ res.op = "ftp" =>
               LET root == RemoteRoot(res.cfg.remote_folder)
               IN  /\ Head(root) = "/"
                   /\ \A n \in 1..Len(root) : root[n] # "\\"
                   /\ \A k \in 1..Len(res.calls) :
                          res.calls[k].op \in Mutating =>
                              StrictlyBelow(root, RemotePath(root, res.calls[k].path))

\* A real remote run on a root spelled without its leading slash deleted a file of a
\* subdirectory and removed the subdirectory.
C32_Witness ==
    /\ res.op = "ftp" /\ ~res.cfg.dry_run
    /\ res.cfg.remote_folder = <<"r">>
    /\ \E k \in 1..Len(res.calls) :
           res.calls[k].op = "dele" /\ Len(res.calls[k].path) = 2
    /\ \E k \in 1..Len(res.calls) :
           res.calls[k].op = "rmd" /\ res.calls[k].path \notin fs.dirs
====
